---- MODULE Spec2Model ----
(***************************************************************************)
(* Model of webui.py: the synthesis request pipeline of the Supertonic TTS *)
(* web UI.  generate_audio is modelled statement by statement (one action  *)
(* per source line that reads or writes shared state), load_model is the   *)
(* lazily initialised module-level singleton tts_model, and the helper     *)
(* functions load_text_to_speech / load_voice_style and the engine call    *)
(* are external collaborators whose outcome (a value or an exception) is a *)
(* nondeterministic choice.  The filesystem is part of the state.          *)
(*                                                                         *)
(* Representation of Python values:                                        *)
(*   None                 PyNone                                           *)
(*   a str argument       PyStr(s), s a TLA+ string; the request text is a *)
(*                        sequence of characters so that strip() can be    *)
(*                        computed                                         *)
(*   a float              an integer number of hundredths (1.05 -> 105)    *)
(*   an engine handle     [id, sample_rate], id = serial of construction   *)
(*   a 2-D array          a sequence of rows                               *)
(***************************************************************************)
EXTENDS Integers, Sequences, FiniteSets, TLC

VARIABLES
    onnxExists,     \* os.path.exists(ONNX_DIR) would now return this
    styleFiles,     \* the paths under VOICE_STYLES_DIR that exist now
    tts_model,      \* the module-level global (line 14)
    pc,             \* per worker: the source line it is about to execute
    req,            \* per worker: the arguments of generate_audio
    model,          \* per worker: the local `model` (line 43)
    style,          \* per worker: the local `style` (line 51)
    exc,            \* per worker: the exception in flight inside the try
    result,         \* per worker: what generate_audio returned
    escaped,        \* per worker: an exception left generate_audio
    log,            \* per worker: external effects of the current request
    pre,            \* per worker: tts_model when the request started
    nRequests,      \* history: requests started
    nInit,          \* history: initialisation attempts (line 28 executed)
    nLoad,          \* history: executions of load_text_to_speech (line 31)
    nBuilt,         \* history: handles constructed (serial of the last one)
    nOverwrites,    \* history: stores to tts_model while it held a handle
    returned,       \* history: the values load_model has returned
    firstMissing,   \* history: the first initialisation attempt found no directory
    styleDirChanged,\* per worker: a style file changed during the request
    overlapped      \* history: two requests were in flight at the same time

vars == << onnxExists, styleFiles, tts_model, pc, req, model, style, exc,
           result, escaped, log, pre, nRequests, nInit, nLoad, nBuilt,
           nOverwrites, returned, firstMissing, styleDirChanged, overlapped >>

env  == << onnxExists, styleFiles >>
hist == << nInit, nLoad, nBuilt, nOverwrites, returned, firstMissing >>

(***************************** configuration ******************************)

ONNX_DIR == "assets/onnx"
VOICE_STYLES_DIR == "assets/voice_styles"
DEFAULT_SPEED == 105
DEFAULT_STEPS == 5

(******************************** bounds **********************************)

MaxTextLen == 2
MaxRequests == 3

Procs == {1, 2}
SeqProcs == {1}

Chars == {" ", "a"}
Whitespace == {" "}

PyNone == [py |-> "None"]
PyStr(s) == [str |-> s]

Texts == UNION { [1..n -> Chars] : n \in 0..MaxTextLen }
StyleNames == {PyNone, PyStr(""), PyStr("F1.json"), PyStr("M1.json")}
Speeds == {50, DEFAULT_SPEED}
Steps == {DEFAULT_STEPS, 20}
SampleRates == {24000, 44100}

Requests ==
    [text : Texts, voice_style_name : StyleNames, speed : Speeds, total_steps : Steps]

RaceRequests ==
    { r \in Requests : /\ r.text = <<"a">>
                       /\ r.speed = DEFAULT_SPEED
                       /\ r.total_steps = DEFAULT_STEPS
                       /\ r.voice_style_name \in {PyNone, PyStr("F1.json")} }

(* What the engine call can return: (wav, duration), wav a 2-D array and   *)
(* duration the per-segment durations in hundredths of a second.           *)
EngineOutputs ==
    { [wav |-> << <<1, 2, 3>> >>,      duration |-> <<342>>],
      [wav |-> << <<3>>, <<1, 2>> >>,  duration |-> <<123, 219>>] }

(* Messages of the exceptions the external helpers raise.                  *)
LoadError == "engine load failed"
DecodeError == "voice style decode failed"
InferenceError == "inference failed"

(***************************** pure functions *****************************)

\* str.strip(): leading and trailing whitespace removed
RECURSIVE LStrip(_)
LStrip(s) ==
    IF s # <<>> /\ Head(s) \in Whitespace THEN LStrip(Tail(s)) ELSE s

RECURSIVE RStrip(_)
RStrip(s) ==
    IF s # <<>> /\ s[Len(s)] \in Whitespace
    THEN RStrip(SubSeq(s, 1, Len(s) - 1))
    ELSE s

\* faulty variant: the text is tested without strip()
StripNothing(s) == s

Strip(s) == RStrip(LStrip(s))

\* `not text.strip()` (line 37)
TextIsBlank(text) == Strip(text) = <<>>

\* faulty variant: `voice_style_name is None`, which lets "" through
StyleIsNone(v) == v = PyNone

\* `not voice_style_name` (line 40): None and "" are falsy
StyleNotSelected(v) == v = PyNone \/ v = PyStr("")

\* os.path.join(dir, name) for a relative name
PathJoin(dir, name) == dir \o "/" \o name

\* line 45
VoiceStylePath(name) == PathJoin(VOICE_STYLES_DIR, name.str)

AllStylePaths ==
    { VoiceStylePath(n) : n \in { m \in StyleNames : m # PyNone /\ m # PyStr("") } }

\* ndarray.flatten(): the rows one after the other (line 61)
RECURSIVE Flatten(_)
Flatten(wav) ==
    IF wav = <<>> THEN <<>> ELSE Head(wav) \o Flatten(Tail(wav))

\* duration.sum() (line 64)
RECURSIVE Sum(_)
Sum(d) == IF d = <<>> THEN 0 ELSE Head(d) + Sum(Tail(d))

\* f"{x:.2f}" of a number given in hundredths
Fmt2(h) ==
    ToString(h \div 100) \o "." \o ToString((h % 100) \div 10) \o ToString(h % 10)

MsgEnterText == "Please enter some text."
MsgSelectStyle == "Please select a voice style."
MsgStyleNotFound(path) == "Voice style file not found: " \o path
MsgOnnxMissing ==
    "ONNX directory not found at '" \o ONNX_DIR
        \o "'. Please ensure assets are correctly linked."
MsgError(e) == "Error: " \o e
MsgSuccess(duration) ==
    "Generated successfully. Duration: " \o Fmt2(Sum(duration)) \o "s"

Failure(msg) == [audio |-> PyNone, status |-> msg]
Success(sample_rate, audio_data, msg) ==
    [audio |-> [sample_rate |-> sample_rate, data |-> audio_data], status |-> msg]

\* faulty variant: speed and total_steps in each other's position
EngineArgsSwapped(r, st) == << r.text, st, r.speed, r.total_steps >>

\* the positional arguments of the engine call (line 56)
EngineArgs(r, st) == << r.text, st, r.total_steps, r.speed >>

(******************************* initial state ****************************)

Init ==
    /\ onnxExists \in BOOLEAN
    /\ styleFiles \in SUBSET AllStylePaths
    /\ tts_model = PyNone
    /\ pc = [p \in Procs |-> "idle"]
    /\ req = [p \in Procs |-> PyNone]
    /\ model = [p \in Procs |-> PyNone]
    /\ style = [p \in Procs |-> PyNone]
    /\ exc = [p \in Procs |-> PyNone]
    /\ result = [p \in Procs |-> PyNone]
    /\ escaped = [p \in Procs |-> FALSE]
    /\ log = [p \in Procs |-> <<>>]
    /\ pre = [p \in Procs |-> PyNone]
    /\ nRequests = 0
    /\ nInit = 0
    /\ nLoad = 0
    /\ nBuilt = 0
    /\ nOverwrites = 0
    /\ returned = {}
    /\ firstMissing = FALSE
    /\ styleDirChanged = [p \in Procs |-> FALSE]
    /\ overlapped = FALSE

(****************************** the filesystem ****************************)

\* the engine-asset directory is created or removed by the operator
SetOnnxDir ==
    /\ onnxExists' = ~onnxExists
    /\ UNCHANGED << styleFiles, tts_model, pc, req, model, style, exc, result,
                    escaped, log, pre, nRequests, hist, overlapped,
                    styleDirChanged >>

\* a voice style file is created or removed
SetStyleFile ==
    /\ \E f \in AllStylePaths :
         styleFiles' = IF f \in styleFiles THEN styleFiles \ {f}
                                           ELSE styleFiles \cup {f}
    /\ styleDirChanged' = [p \in Procs |-> pc[p] # "idle"]
    /\ UNCHANGED << onnxExists, tts_model, pc, req, model, style, exc, result,
                    escaped, log, pre, nRequests, hist, overlapped >>

(****************************** generate_audio ****************************)

Goto(p, l) == pc' = [pc EXCEPT ![p] = l]
Raise(p, msg) == exc' = [exc EXCEPT ![p] = [msg |-> msg]] /\ Goto(p, "L66")
ReturnValue(p, v) == result' = [result EXCEPT ![p] = v] /\ Goto(p, "done")
Logged(p, e) == log' = [log EXCEPT ![p] = Append(@, e)]

\* the Presentation Shell dispatches the click with request r (lines 121-125)
Start(p, r) ==
    /\ pc[p] = "idle"
    /\ nRequests < MaxRequests
    /\ nRequests' = nRequests + 1
    /\ req' = [req EXCEPT ![p] = r]
    /\ pre' = [pre EXCEPT ![p] = tts_model]
    /\ overlapped' = (overlapped \/ \E q \in Procs \ {p} : pc[q] # "idle")
    /\ styleDirChanged' = [styleDirChanged EXCEPT ![p] = FALSE]
    /\ Goto(p, "L37")
    /\ UNCHANGED << env, tts_model, model, style, exc, result, escaped, log, hist >>

\* single worker: one request at a time
Begin(p) ==
    /\ \A q \in Procs : pc[q] = "idle"
    /\ \E r \in Requests : Start(p, r)

\* concurrent-request server: a request may start while another is in flight
BeginConcurrent(p) ==
    \E r \in RaceRequests : Start(p, r)

\* lines 37-38
TextCheck(p) ==
    /\ pc[p] = "L37"
    /\ IF TextIsBlank(req[p].text)
       THEN ReturnValue(p, Failure(MsgEnterText))
       ELSE Goto(p, "L40") /\ UNCHANGED result
    /\ UNCHANGED << env, tts_model, req, model, style, exc, escaped, log, pre,
                    nRequests, hist, overlapped, styleDirChanged >>

\* lines 40-41, then the call of load_model on line 43
StyleCheck(p) ==
    /\ pc[p] = "L40"
    /\ IF StyleNotSelected(req[p].voice_style_name)
       THEN ReturnValue(p, Failure(MsgSelectStyle))
       ELSE Goto(p, "L27") /\ UNCHANGED result
    /\ UNCHANGED << env, tts_model, req, model, style, exc, escaped, log, pre,
                    nRequests, hist, overlapped, styleDirChanged >>

(******************************** load_model ******************************)

\* faulty variant: the handle is rebuilt on every call
ModelAlwaysUnset == TRUE

\* `tts_model is None` (line 27)
ModelIsUnset == tts_model = PyNone

\* faulty variant: the directory check fails whatever is on disk
OnnxDirNeverFound == TRUE

\* `not os.path.exists(ONNX_DIR)` (line 28)
OnnxDirMissing == ~onnxExists

\* line 27
LoadModelTest(p) ==
    /\ pc[p] = "L27"
    /\ IF ModelIsUnset THEN Goto(p, "L28") ELSE Goto(p, "L33")
    /\ UNCHANGED << env, tts_model, req, model, style, exc, result, escaped, log,
                    pre, nRequests, hist, overlapped, styleDirChanged >>

\* lines 28-29
LoadModelDirCheck(p) ==
    /\ pc[p] = "L28"
    /\ nInit' = nInit + 1
    /\ Logged(p, [op |-> "exists", path |-> ONNX_DIR, found |-> onnxExists])
    /\ IF OnnxDirMissing
       THEN Raise(p, MsgOnnxMissing) /\ firstMissing' = (firstMissing \/ nInit = 0)
       ELSE Goto(p, "L31") /\ UNCHANGED << exc, firstMissing >>
    /\ UNCHANGED << env, tts_model, req, model, style, result, escaped, pre,
                    nRequests, nLoad, nBuilt, nOverwrites, returned, overlapped,
                    styleDirChanged >>

\* faulty variant: the handle is built but bound to a local name, the global
\* is not updated
LoadModelConstructLocal(p) ==
    /\ pc[p] = "L31"
    /\ nLoad' = nLoad + 1
    /\ Logged(p, [op |-> "load_text_to_speech", path |-> ONNX_DIR, use_gpu |-> FALSE])
    /\ \/ /\ Raise(p, LoadError)
          /\ UNCHANGED nBuilt
       \/ /\ nBuilt' = nBuilt + 1
          /\ Goto(p, "L33")
          /\ UNCHANGED exc
    /\ UNCHANGED << env, tts_model, req, model, style, result, escaped, pre,
                    nRequests, nInit, nOverwrites, returned, firstMissing,
                    overlapped, styleDirChanged >>

\* line 31: load_text_to_speech(ONNX_DIR, use_gpu=False) returns a new handle,
\* which is stored, or raises
LoadModelConstruct(p) ==
    /\ pc[p] = "L31"
    /\ nLoad' = nLoad + 1
    /\ Logged(p, [op |-> "load_text_to_speech", path |-> ONNX_DIR, use_gpu |-> FALSE])
    /\ \/ /\ Raise(p, LoadError)
          /\ UNCHANGED << tts_model, nBuilt, nOverwrites >>
       \/ \E sr \in SampleRates :
          /\ tts_model' = [id |-> nBuilt + 1, sample_rate |-> sr]
          /\ nBuilt' = nBuilt + 1
          /\ nOverwrites' = nOverwrites + (IF tts_model # PyNone THEN 1 ELSE 0)
          /\ Goto(p, "L33")
          /\ UNCHANGED exc
    /\ UNCHANGED << env, req, model, style, result, escaped, pre, nRequests,
                    nInit, returned, firstMissing, overlapped, styleDirChanged >>

\* line 33, and the assignment of line 43
LoadModelReturn(p) ==
    /\ pc[p] = "L33"
    /\ model' = [model EXCEPT ![p] = tts_model]
    /\ returned' = returned \cup {tts_model}
    /\ Goto(p, "L45")
    /\ UNCHANGED << env, tts_model, req, style, exc, result, escaped, log, pre,
                    nRequests, nInit, nLoad, nBuilt, nOverwrites, firstMissing,
                    overlapped, styleDirChanged >>

(************************ generate_audio, continued ***********************)

\* lines 45-47
PathCheck(p) ==
    /\ pc[p] = "L45"
    /\ LET path == VoiceStylePath(req[p].voice_style_name) IN
         /\ Logged(p, [op |-> "exists", path |-> path, found |-> path \in styleFiles])
         /\ IF path \notin styleFiles
            THEN ReturnValue(p, Failure(MsgStyleNotFound(path)))
            ELSE Goto(p, "L51") /\ UNCHANGED result
    /\ UNCHANGED << env, tts_model, req, model, style, exc, escaped, pre,
                    nRequests, hist, overlapped, styleDirChanged >>

\* line 51: load_voice_style([voice_style_path]); it raises when the file is
\* gone by now or cannot be decoded
Decode(p) ==
    /\ pc[p] = "L51"
    /\ LET paths == << VoiceStylePath(req[p].voice_style_name) >> IN
         /\ Logged(p, [op |-> "load_voice_style", paths |-> paths])
         /\ \/ /\ Raise(p, DecodeError)
               /\ UNCHANGED style
            \/ /\ \A i \in 1..Len(paths) : paths[i] \in styleFiles
               /\ style' = [style EXCEPT ![p] = [paths |-> paths]]
               /\ Goto(p, "L56")
               /\ UNCHANGED exc
    /\ UNCHANGED << env, tts_model, req, model, result, escaped, pre, nRequests,
                    hist, overlapped, styleDirChanged >>

\* the call `model(text, style, total_steps, speed)`, whether it returned, and
\* the wav it returned (empty when it raised)
EngineCall(p, ok, wav) ==
    [op |-> "engine", handle |-> model[p], args |-> EngineArgs(req[p], style[p]),
     ok |-> ok, wav |-> wav]

\* lines 56-64: the engine call, flatten, sample_rate and the return
Invoke(p) ==
    /\ pc[p] = "L56"
    /\ \/ /\ Logged(p, EngineCall(p, FALSE, <<>>))
          /\ Raise(p, InferenceError)
          /\ UNCHANGED result
       \/ \E out \in EngineOutputs :
          /\ Logged(p, EngineCall(p, TRUE, out.wav))
          /\ ReturnValue(p, Success(model[p].sample_rate, Flatten(out.wav),
                                    MsgSuccess(out.duration)))
          /\ UNCHANGED exc
    /\ UNCHANGED << env, tts_model, req, model, style, escaped, pre, nRequests,
                    hist, overlapped, styleDirChanged >>

\* faulty variant: the handler logs the traceback and re-raises
HandlerReraises(p) ==
    /\ pc[p] = "L66"
    /\ escaped' = [escaped EXCEPT ![p] = TRUE]
    /\ exc' = [exc EXCEPT ![p] = PyNone]
    /\ Goto(p, "done")
    /\ UNCHANGED << env, tts_model, req, model, style, result, log, pre,
                    nRequests, hist, overlapped, styleDirChanged >>

\* lines 66-69: except Exception as e
Handler(p) ==
    /\ pc[p] = "L66"
    /\ ReturnValue(p, Failure(MsgError(exc[p].msg)))
    /\ exc' = [exc EXCEPT ![p] = PyNone]
    /\ UNCHANGED << env, tts_model, req, model, style, escaped, log, pre,
                    nRequests, hist, overlapped, styleDirChanged >>

\* the Presentation Shell takes the outputs; the call's locals are gone
Finish(p) ==
    /\ pc[p] = "done"
    /\ Goto(p, "idle")
    /\ req' = [req EXCEPT ![p] = PyNone]
    /\ model' = [model EXCEPT ![p] = PyNone]
    /\ style' = [style EXCEPT ![p] = PyNone]
    /\ result' = [result EXCEPT ![p] = PyNone]
    /\ escaped' = [escaped EXCEPT ![p] = FALSE]
    /\ log' = [log EXCEPT ![p] = <<>>]
    /\ pre' = [pre EXCEPT ![p] = PyNone]
    /\ styleDirChanged' = [styleDirChanged EXCEPT ![p] = FALSE]
    /\ UNCHANGED << env, tts_model, exc, nRequests, hist, overlapped >>

Step(p) ==
    \/ TextCheck(p)
    \/ StyleCheck(p)
    \/ LoadModelTest(p)
    \/ LoadModelDirCheck(p)
    \/ LoadModelConstruct(p)
    \/ LoadModelReturn(p)
    \/ PathCheck(p)
    \/ Decode(p)
    \/ Invoke(p)
    \/ Handler(p)
    \/ Finish(p)

(****************************** specifications ****************************)

\* strictly sequential request handling: a single worker
Next ==
    \/ SetOnnxDir
    \/ SetStyleFile
    \/ \E p \in SeqProcs : Begin(p)
    \/ \E p \in SeqProcs : Step(p)

Spec == Init /\ [][Next]_vars

\* a concurrent-request server: two workers
NextConcurrent ==
    \/ SetOnnxDir
    \/ SetStyleFile
    \/ \E p \in Procs : BeginConcurrent(p)
    \/ \E p \in Procs : Step(p)

SpecConcurrent == Init /\ [][NextConcurrent]_vars

(********************************* claims *********************************)

Done(p) == pc[p] = "done"

\* the text has no character that is not whitespace
OnlyWhitespace(text) == \A i \in 1..Len(text) : text[i] \in Whitespace

\* no style was chosen in the dropdown: None, or the empty string
Unselected(name) == name = PyNone \/ name = PyStr("")

\* the operations of one kind in a request's log, as positions
Ops(p, kind) == { i \in 1..Len(log[p]) : log[p][i].op = kind }

InitOps(p) ==
    { i \in 1..Len(log[p]) :
        \/ log[p][i].op = "load_text_to_speech"
        \/ log[p][i].op = "exists" /\ log[p][i].path = ONNX_DIR }

ErrorMessages ==
    { "Error: " \o e : e \in {MsgOnnxMissing, LoadError, DecodeError, InferenceError} }

NotFoundMessages == { "Voice style file not found: " \o f : f \in AllStylePaths }

\* C1: a request whose text is empty or whitespace-only returns
\* (None, "Please enter some text.") and during it nothing external happens:
\* no directory check, no engine construction, no style decoding, no engine call.
C1_BlankTextRejected ==
    \A p \in Procs :
        (Done(p) /\ OnlyWhitespace(req[p].text)) =>
            /\ result[p] = [audio |-> PyNone, status |-> "Please enter some text."]
            /\ ~escaped[p]
            /\ log[p] = <<>>
            /\ tts_model = pre[p]

C1_Witness ==
    /\ Done(1)
    /\ req[1].text = <<" ", " ">>
    /\ req[1].voice_style_name = PyStr("F1.json")
    /\ pre[1] # PyNone
    /\ result[1].status = "Please enter some text."

\* C2: a request with non-blank text and no style selected (None or "")
\* returns (None, "Please select a voice style.") and performs no existence
\* check, no engine-directory check and no engine construction.
C2_NoStyleRejected ==
    \A p \in Procs :
        (Done(p) /\ ~OnlyWhitespace(req[p].text)
                 /\ Unselected(req[p].voice_style_name)) =>
            /\ result[p] = [audio |-> PyNone, status |-> "Please select a voice style."]
            /\ ~escaped[p]
            /\ log[p] = <<>>
            /\ tts_model = pre[p]

C2_Witness ==
    /\ Done(1)
    /\ req[1].text = <<" ", "a">>
    /\ req[1].voice_style_name = PyStr("")
    /\ result[1].status = "Please select a voice style."
    /\ tts_model = PyNone
    /\ ~onnxExists

\* C3 (as claimed): a request with non-blank text and a style name whose
\* resolved path does not exist (and no style file changed during the request)
\* returns (None, "Voice style file not found: {path}") and the engine is not
\* called, whatever the state of tts_model and of the engine-asset directory.
C3_MissingStyleReported ==
    \A p \in Procs :
        (Done(p) /\ ~OnlyWhitespace(req[p].text)
                 /\ ~Unselected(req[p].voice_style_name)
                 /\ ~styleDirChanged[p]
                 /\ VoiceStylePath(req[p].voice_style_name) \notin styleFiles) =>
            /\ result[p] =
                 [audio |-> PyNone,
                  status |-> "Voice style file not found: " \o VOICE_STYLES_DIR \o "/"
                                 \o req[p].voice_style_name.str]
            /\ Ops(p, "engine") = {}

\* C4: under sequential calls the stored handle never changes once set, every
\* load_model call that returns hands out that one handle, a call that starts
\* with a handle stored performs no initialisation, and when every
\* initialisation attempt succeeded load_text_to_speech ran exactly once.
C4_SingleConstruction ==
    /\ nOverwrites = 0
    /\ Cardinality(returned) <= 1
    /\ tts_model # PyNone => returned \subseteq {tts_model}
    /\ \A p \in Procs :
         (pc[p] \in {"L45", "L51", "L56", "done"} /\ model[p] # PyNone) =>
            /\ model[p] = tts_model
            /\ pre[p] # PyNone => (model[p] = pre[p] /\ InitOps(p) = {})
    /\ (returned # {} /\ nInit = nBuilt) => nLoad = 1

C4_Witness ==
    /\ nRequests = 3
    /\ pc[1] = "L45"
    /\ pre[1] # PyNone
    /\ model[1] = pre[1]
    /\ nLoad = 1
    /\ nInit = 1

C7_ExactlyOneVariant ==
    \A p \in Procs :
        /\ ~escaped[p]
        /\ Done(p) =>
             /\ result[p] # PyNone
             /\ exc[p] = PyNone
             /\ \/ /\ result[p].audio = PyNone
                   /\ result[p].status \in
                        {"Please enter some text.", "Please select a voice style."}
                            \cup NotFoundMessages \cup ErrorMessages
                   /\ \A i \in Ops(p, "engine") : ~log[p][i].ok
                \/ /\ result[p].audio # PyNone
                   /\ result[p].audio.sample_rate \in SampleRates
                   /\ result[p].status \in
                        {"Generated successfully. Duration: 3.42s"}
                   /\ \E i \in Ops(p, "engine") : log[p][i].ok

C7_Witness ==
    /\ Done(1)
    /\ result[1] = [audio |-> PyNone, status |-> "Error: voice style decode failed"]
    /\ log[1][Len(log[1]) - 1].op = "exists"
    /\ log[1][Len(log[1]) - 1].found
    /\ VoiceStylePath(req[1].voice_style_name) \notin styleFiles

\* the number of samples in the rows of wav before row r
RECURSIVE RowOffset(_, _)
RowOffset(wav, r) ==
    IF r = 1 THEN 0 ELSE RowOffset(wav, r - 1) + Len(wav[r - 1])

\* data holds the samples of wav row after row, each row in its order
RowMajor(wav, data) ==
    /\ Len(data) = RowOffset(wav, Len(wav) + 1)
    /\ \A r \in 1..Len(wav) : \A i \in 1..Len(wav[r]) :
         data[RowOffset(wav, r) + i] = wav[r][i]

\* C8: a request that passed every check and in which construction, decoding
\* and inference succeeded returns Success: the sample rate is that of the
\* stored handle, the samples are the engine's output row after row, the style
\* was decoded once from exactly one path (the resolved one), and the engine
\* was called once, after the decoding, with (text, style, total_steps, speed).
C8_HappyPath ==
    \A p \in Procs :
        (Done(p) /\ \E i \in Ops(p, "engine") : log[p][i].ok) =>
            LET e == CHOOSE i \in Ops(p, "engine") : TRUE
                d == CHOOSE i \in Ops(p, "load_voice_style") : TRUE
            IN  /\ result[p].audio # PyNone
                /\ tts_model # PyNone
                /\ result[p].audio.sample_rate = tts_model.sample_rate
                /\ RowMajor(log[p][e].wav, result[p].audio.data)
                /\ Cardinality(Ops(p, "load_voice_style")) = 1
                /\ log[p][d].paths =
                     << VOICE_STYLES_DIR \o "/" \o req[p].voice_style_name.str >>
                /\ Cardinality(Ops(p, "engine")) = 1
                /\ d < e
                /\ log[p][e].handle = tts_model
                /\ log[p][e].args =
                     << req[p].text, [paths |-> log[p][d].paths],
                        req[p].total_steps, req[p].speed >>

C8_Witness ==
    /\ Done(1)
    /\ result[1].audio # PyNone
    /\ result[1].audio.data = <<3, 1, 2>>
    /\ result[1].audio.sample_rate = 44100
    /\ req[1].speed = 50
    /\ req[1].total_steps = 20
    /\ req[1].text = <<"a", " ">>
    /\ pre[1] = PyNone

\* C9 (as claimed): a request rejected by one of the first three checks (blank
\* text, no style selected, style path missing) leaves the lifecycle manager
\* alone: no engine-directory check, no construction, tts_model unchanged.
C9_RejectionLeavesManagerAlone ==
    \A p \in Procs :
        (Done(p) /\ result[p].audio = PyNone
                 /\ result[p].status \in
                      {"Please enter some text.", "Please select a voice style."}
                          \cup NotFoundMessages) =>
            /\ InitOps(p) = {}
            /\ tts_model = pre[p]

\* C10: as long as requests never overlap, the stored handle is never
\* overwritten, at most one handle is ever constructed and all requests hold
\* the same handle; with two requests in load_model at once a state is reached
\* (C10_Witness) where both saw tts_model as None, load_text_to_speech ran
\* twice, the stored handle was overwritten and the two hold different handles.
C10_RaceOnlyWhenOverlapped ==
    ~overlapped =>
        /\ nOverwrites = 0
        /\ nBuilt <= 1
        /\ Cardinality(returned) <= 1
        /\ \A p, q \in Procs :
             (model[p] # PyNone /\ model[q] # PyNone) => model[p] = model[q]

C10_Witness ==
    /\ overlapped
    /\ pre[1] = PyNone /\ pre[2] = PyNone
    /\ Ops(1, "load_text_to_speech") # {} /\ Ops(2, "load_text_to_speech") # {}
    /\ nLoad = 2
    /\ nOverwrites = 1
    /\ model[1] # PyNone /\ model[2] # PyNone
    /\ model[1] # model[2]
    /\ model[1].id = 1 /\ tts_model.id = 2

====
